---- MODULE Spec2Model ----
(***************************************************************************)
(* State-machine model of src/yt_detect.py: the download cache             *)
(* (download_youtube_video), the file-upload branch, remote ingestion      *)
(* (upload_to_gemini), the two classifiers and the results dashboard.      *)
(***************************************************************************)
EXTENDS Naturals, Sequences, FiniteSets

\* ---------------------------------------------------------------- bounds
\* How far the length of a URL's candidate token may differ from IdLen.
LenSlack == 1
\* Number of distinct byte contents the network / an uploader can deliver.
NumContents == 2
\* Number of acquisition calls (SpecAcquire) or script runs (Spec).
MaxRuns == 2
\* How many provider reports and status requests a run records exactly.
MaxReports == 3
\* Number of sessions whose script runs overlap (SpecRace).
NumSessions == 3

\* ------------------------------------------------------ program constants
\* The {11} of the video-id regular expression.
IdLen == 11

\* ------------------------------------------------------------- the regex
\* r"(?:v=|\/)([\w-]{11})(?:\?|&|\/|$)" over URLs that are sequences of
\* one-character strings.  WordChars are the characters of the model's
\* alphabet that [\w-] accepts; every other character is rejected by it.
WordChars == {"a", "b", "v", "x", "-", "_"}

TailChars == {"?", "&", "/"}

\* (?:v=|\/) at position i: the number of characters it consumes, 0 if it
\* does not match there.
LeadLen(url, i) ==
    IF url[i] = "v" /\ i + 1 <= Len(url) /\ url[i + 1] = "="
    THEN 2
    ELSE IF url[i] = "/" THEN 1 ELSE 0

\* (?:\?|&|\/|$) at position j; Python's $ matches at the end of the string
\* and just before a newline that ends the string.
TailOK(url, j) ==
    \/ j = Len(url) + 1
    \/ j = Len(url) /\ url[j] = "\n"
    \/ j <= Len(url) /\ url[j] \in TailChars

\* The whole pattern matched with its first character at position i.
MatchAt(url, i) ==
    LET g == i + LeadLen(url, i)
    IN  /\ LeadLen(url, i) > 0
        /\ g + IdLen - 1 <= Len(url)
        /\ \A k \in g..(g + IdLen - 1) : url[k] \in WordChars
        /\ TailOK(url, g + IdLen)

NoMatch == <<>>

\* re.search: the leftmost match; its group(1), or NoMatch.
re_search(url) ==
    LET starts == {i \in 1..Len(url) : MatchAt(url, i)}
    IN  IF starts = {}
        THEN NoMatch
        ELSE LET i == CHOOSE s \in starts : \A t \in starts : s <= t
                 g == i + LeadLen(url, i)
             IN  SubSeq(url, g, g + IdLen - 1)

\* ------------------------------------------------------------ the inputs
Fill(c, n) == [i \in 1..n |-> c]

\* A token of word characters (-, _ and v among them).
WordToken(n) ==
    [i \in 1..n |-> IF i = 2 THEN "-" ELSE IF i = 3 THEN "_" ELSE IF i = 4 THEN "v" ELSE "a"]

\* The same token with one character [\w-] rejects.
DottedToken(n) == [i \in 1..n |-> IF i = 5 THEN "." ELSE WordToken(n)[i]]

TokenLens == (IdLen - LenSlack)..(IdLen + LenSlack)

Tokens == {WordToken(n) : n \in TokenLens} \cup {DottedToken(IdLen)}

Prefixes == {<<>>, <<"/">>, <<"v", "=">>, <<"x", "=">>}

Suffixes ==
    {<<>>, <<"?">>, <<"&">>, <<"/">>, <<".">>, <<"\n">>, <<"\n", "\n">>,
     <<"/">> \o Fill("b", IdLen)}

\* What a user may paste into the text input.
URLs == {p \o t \o s : p \in Prefixes, t \in Tokens, s \in Suffixes}

\* Lines 33-37 for every URL of the model: video_id_match.group(1), or
\* NoMatch where the code raises.
video_id_of == [u \in URLs |-> re_search(u)]

\* Every video id some URL yields.
Ids == {video_id_of[u] : u \in URLs} \ {NoMatch}

\* ------------------------------------------------------------- the disk
\* A path is <<directory, base name, extension>>.
Path(dir, name, ext) == <<dir, name, ext>>

\* f"downloads/{video_id}.mp4"
output_filename(video_id) == Path("downloads", video_id, "mp4")

\* "temp_upload.mp4"
temp_upload == Path(".", <<"temp_upload">>, "mp4")

\* The extensions 'bestvideo[ext=mp4]+bestaudio[ext=m4a]/best[ext=mp4]/best'
\* can produce for %(ext)s: mp4 from its first two alternatives, the
\* container of whatever stream is best from the third.
Exts == {"mp4", "webm"}

Contents == 1..NumContents

VARIABLES
    dirExists,          \* os.path.exists("downloads")
    files,              \* the files on disk: path -> content (0: truncated)
    fetchCalls,         \* per video id: invocations of ydl.download
    okFetch,            \* per video id: successful calls that went through ydl.download
    okHit,              \* per video id: successful calls that returned from the cache
    yt_url,             \* the URL of the latest acquisition
    ret,                \* what the latest acquisition did: kind, path, message
    runs,               \* acquisitions / script runs so far
    pc,                 \* where the script run is
    target_file_path,   \* line 146
    process_trigger,    \* line 147
    error,              \* the st.error message of this run, "" if none
    failedStage,        \* the stage whose exception ended this run, "" if none
    provider,           \* the state of the uploaded asset at the provider
    video_file,         \* video_file.state, the handle upload_to_gemini holds
    reports,            \* the states the provider reported, in order
    uploadCalls,        \* client.files.upload calls of this run
    getCalls,           \* client.files.get calls of this run
    gemini_file,        \* the state of the handle upload_to_gemini returned
    visual_res,         \* line 184
    audio_res,          \* line 185
    visualCalls,        \* generate_content calls of analyze_visuals
    audioCalls,         \* generate_content calls of analyze_audio
    shown,              \* the dashboard: what lines 191-214 rendered
    sessions            \* SpecRace: each session's place in download_youtube_video

diskVars == <<dirExists, files, fetchCalls, okFetch, okHit>>

ingestVars == <<provider, video_file, reports, uploadCalls, getCalls, gemini_file>>

classifyVars == <<visual_res, audio_res, visualCalls, audioCalls, shown>>

runVars == <<pc, target_file_path, process_trigger, error, failedStage>>

vars ==
    <<dirExists, files, fetchCalls, okFetch, okHit, yt_url, ret, runs, sessions,
      pc, target_file_path, process_trigger, error, failedStage,
      provider, video_file, reports, uploadCalls, getCalls, gemini_file,
      visual_res, audio_res, visualCalls, audioCalls, shown, sessions>>

NoPath == Path("", <<>>, "")

Returned(kind, path) == [kind |-> kind, path |-> path, msg |-> ""]

Raised(msg) == [kind |-> "raise", path |-> NoPath, msg |-> msg]

NoCall == [kind |-> "none", path |-> NoPath, msg |-> ""]

Exists(path) == path \in DOMAIN files

\* A file system write of content c at path.
WriteFile(path, c) == [p \in DOMAIN files \cup {path} |-> IF p = path THEN c ELSE files[p]]

Bump(counter, k) == [counter EXCEPT ![k] = @ + 1]

\* ------------------------------------------- download_youtube_video(url)
\* Mutant of MakeDirs: os.makedirs moved above the regex check.
MakeDirsFirst(url) == TRUE

\* Lines 34-35 come before lines 44-45: the directory is created only for a
\* URL the regex matched.
MakeDirs(url) == video_id_of[url] # NoMatch

\* Mutant of CacheHit: the existence check dropped.
CacheHitNever(video_id) == FALSE

\* Line 48: os.path.exists(output_filename).
CacheHit(video_id) == Exists(output_filename(video_id))

\* Line 56: 'outtmpl': f'downloads/{video_id}.%(ext)s'.
outtmpl(video_id, ext) == Path("downloads", video_id, ext)

\* ydl.download writing content c at path: the library decides what happens
\* to a file that is already there (kept, or written again).
YdlOutcomes(path, c) ==
    IF Exists(path) THEN {files, WriteFile(path, c)} ELSE {WriteFile(path, c)}

\* Lines 33-35: no match, ValueError.
DL_NoMatch(url) ==
    /\ video_id_of[url] = NoMatch
    /\ dirExists' = (dirExists \/ MakeDirs(url))
    /\ ret' = Raised("Could not extract video ID from URL")
    /\ UNCHANGED <<files, fetchCalls, okFetch, okHit>>

\* Lines 37-50: the file is there, return it.
DL_CacheHit(url) ==
    LET video_id == video_id_of[url]
    IN  /\ video_id # NoMatch
        /\ dirExists' = (dirExists \/ MakeDirs(url))
        /\ CacheHit(video_id)
        /\ ret' = Returned("hit", output_filename(video_id))
        /\ okHit' = Bump(okHit, video_id)
        /\ UNCHANGED <<files, fetchCalls, okFetch>>

\* Lines 37-64: the file is not there, ydl.download writes
\* downloads/<id>.<ext> and the function returns downloads/<id>.mp4.
DL_Fetch(url) ==
    LET video_id == video_id_of[url]
    IN  /\ video_id # NoMatch
        /\ dirExists' = (dirExists \/ MakeDirs(url))
        /\ ~CacheHit(video_id)
        /\ fetchCalls' = Bump(fetchCalls, video_id)
        /\ \E ext \in Exts, c \in Contents :
             files' \in YdlOutcomes(outtmpl(video_id, ext), c)
        /\ ret' = Returned("fetched", output_filename(video_id))
        /\ okFetch' = Bump(okFetch, video_id)
        /\ UNCHANGED okHit

\* Lines 37-62: the file is not there and ydl.download raises.
DL_FetchRaises(url) ==
    LET video_id == video_id_of[url]
    IN  /\ video_id # NoMatch
        /\ dirExists' = (dirExists \/ MakeDirs(url))
        /\ ~CacheHit(video_id)
        /\ fetchCalls' = Bump(fetchCalls, video_id)
        /\ ret' = Raised("download error")
        /\ UNCHANGED <<files, okFetch, okHit>>

download_youtube_video(url) ==
    \/ DL_NoMatch(url)
    \/ DL_CacheHit(url)
    \/ DL_Fetch(url)
    \/ DL_FetchRaises(url)

\* ------------------------------------------------ the File Upload branch
\* Lines 164-166: open(target_file_path, "wb") and write the uploaded bytes.
SaveUpload(bytes) ==
    /\ files' = WriteFile(temp_upload, bytes)
    /\ ret' = Returned("saved", temp_upload)
    /\ UNCHANGED <<dirExists, fetchCalls, okFetch, okHit>>

\* Lines 165-166 raising: at open() nothing is written, after it the file
\* is left truncated.
SaveUploadRaises ==
    /\ files' \in {files, WriteFile(temp_upload, 0)}
    /\ ret' = Raised("OSError")
    /\ UNCHANGED <<dirExists, fetchCalls, okFetch, okHit>>

\* ------------------------------------------------- a run of the script
States == {"PROCESSING", "READY", "FAILED", "STATE_UNSPECIFIED"}

\* JSON values of a response's fields: absent, an integer, or something
\* that is no number.
Absent == [t |-> "absent", n |-> 0]

JInt(n) == [t |-> "int", n |-> n]

JOther == [t |-> "other", n |-> 0]

NoRes == [parsed |-> FALSE, score |-> Absent, verdict |-> ""]

NotShown == [drawn |-> FALSE, score |-> 0, color |-> "", verdict |-> ""]

\* What the script holds when it starts: lines 146-147, nothing uploaded,
\* nothing analysed, nothing rendered.
FreshRun ==
    [pc |-> "idle", target_file_path |-> NoPath, process_trigger |-> FALSE,
     error |-> "", failedStage |-> "", provider |-> "NONE", video_file |-> "NONE",
     reports |-> <<>>, uploadCalls |-> 0, getCalls |-> 0, gemini_file |-> "NONE",
     visual_res |-> NoRes, audio_res |-> NoRes, visualCalls |-> 0, audioCalls |-> 0,
     shown |-> [visual |-> NotShown, audio |-> NotShown]]

InitRun ==
    /\ pc = FreshRun.pc
    /\ target_file_path = FreshRun.target_file_path
    /\ process_trigger = FreshRun.process_trigger
    /\ error = FreshRun.error
    /\ failedStage = FreshRun.failedStage
    /\ provider = FreshRun.provider
    /\ video_file = FreshRun.video_file
    /\ reports = FreshRun.reports
    /\ uploadCalls = FreshRun.uploadCalls
    /\ getCalls = FreshRun.getCalls
    /\ gemini_file = FreshRun.gemini_file
    /\ visual_res = FreshRun.visual_res
    /\ audio_res = FreshRun.audio_res
    /\ visualCalls = FreshRun.visualCalls
    /\ audioCalls = FreshRun.audioCalls
    /\ shown = FreshRun.shown

\* --------------------------------------------- acquisitions, one by one
Sessions == 1..NumSessions

\* A session that has not called download_youtube_video yet.
FreshSession ==
    [pc |-> "start", video_id |-> NoMatch, absent |-> FALSE, ext |-> "",
     out |-> "none", seen |-> 0]

InitDisk ==
    /\ sessions = [s \in Sessions |-> FreshSession]
    /\ dirExists = FALSE
    /\ files = <<>>
    /\ fetchCalls = [k \in Ids |-> 0]
    /\ okFetch = [k \in Ids |-> 0]
    /\ okHit = [k \in Ids |-> 0]
    /\ runs = 0

InitAcquire ==
    /\ InitDisk
    /\ yt_url = <<>>
    /\ ret = NoCall
    /\ InitRun

AcquireURL ==
    /\ runs < MaxRuns
    /\ runs' = runs + 1
    /\ UNCHANGED sessions
    /\ \E url \in URLs :
         /\ yt_url' = url
         /\ download_youtube_video(url)
    /\ UNCHANGED <<runVars, ingestVars, classifyVars>>

AcquireUpload ==
    /\ runs < MaxRuns
    /\ runs' = runs + 1
    /\ UNCHANGED sessions
    /\ yt_url' = <<>>
    /\ \E bytes \in Contents : SaveUpload(bytes)
    /\ UNCHANGED <<runVars, ingestVars, classifyVars>>

AcquireUploadRaises ==
    /\ runs < MaxRuns
    /\ runs' = runs + 1
    /\ UNCHANGED sessions
    /\ yt_url' = <<>>
    /\ SaveUploadRaises
    /\ UNCHANGED <<runVars, ingestVars, classifyVars>>

NextAcquire == AcquireURL \/ AcquireUpload \/ AcquireUploadRaises

SpecAcquire == InitAcquire /\ [][NextAcquire]_vars

\* ------------------------------------------------------ the script, UI
\* The URLs pasted in the runs of the whole script: two spellings of one
\* video and one URL without a video id.
SampleURLs ==
    {<<"v", "=">> \o WordToken(IdLen),
     <<"/">> \o WordToken(IdLen) \o <<"?">>,
     <<"x", "=">> \o WordToken(IdLen)}

\* The script is not running: before the first user action or after a run.
Idle == pc \in {"idle", "end", "crashed"}

ResetIngest ==
    /\ provider' = FreshRun.provider
    /\ video_file' = FreshRun.video_file
    /\ reports' = FreshRun.reports
    /\ uploadCalls' = FreshRun.uploadCalls
    /\ getCalls' = FreshRun.getCalls
    /\ gemini_file' = FreshRun.gemini_file

ResetClassify ==
    /\ visual_res' = FreshRun.visual_res
    /\ audio_res' = FreshRun.audio_res
    /\ visualCalls' = FreshRun.visualCalls
    /\ audioCalls' = FreshRun.audioCalls
    /\ shown' = FreshRun.shown

\* Lines 216-217: except Exception -> st.error("Analysis failed: ...").
Caught(stage) ==
    /\ error' = "Analysis failed"
    /\ failedStage' = stage
    /\ pc' = "end"
    /\ UNCHANGED <<target_file_path, process_trigger>>

\* Lines 150-158 and the test of line 170: the YouTube URL branch.
RunURL ==
    /\ Idle
    /\ runs < MaxRuns
    /\ runs' = runs + 1
    /\ UNCHANGED sessions
    /\ \E url \in SampleURLs :
         /\ yt_url' = url
         /\ download_youtube_video(url)
    /\ IF ret'.kind = "raise"
       THEN /\ target_file_path' = NoPath
            /\ process_trigger' = FALSE
            /\ error' = "Could not download video"
            /\ failedStage' = "acquire"
            /\ pc' = "end"
       ELSE /\ target_file_path' = ret'.path
            /\ process_trigger' = TRUE
            /\ error' = ""
            /\ failedStage' = ""
            /\ pc' = "video"
    /\ ResetIngest
    /\ ResetClassify

\* Lines 160-167: the File Upload branch.
RunUpload ==
    /\ Idle
    /\ runs < MaxRuns
    /\ runs' = runs + 1
    /\ UNCHANGED sessions
    /\ \E bytes \in Contents : SaveUpload(bytes)
    /\ target_file_path' = temp_upload
    /\ process_trigger' = TRUE
    /\ error' = ""
    /\ failedStage' = ""
    /\ pc' = "video"
    /\ ResetIngest
    /\ ResetClassify
    /\ UNCHANGED yt_url

\* Lines 164-166 raising: no try encloses them, the exception leaves the
\* script.
RunUploadRaises ==
    /\ Idle
    /\ runs < MaxRuns
    /\ runs' = runs + 1
    /\ UNCHANGED sessions
    /\ SaveUploadRaises
    /\ target_file_path' = temp_upload
    /\ process_trigger' = FALSE
    /\ error' = ""
    /\ failedStage' = "save"
    /\ pc' = "crashed"
    /\ ResetIngest
    /\ ResetClassify
    /\ UNCHANGED yt_url

\* Line 176: st.video(target_file_path), before the try of line 178; a
\* file that is not there cannot be read.
ShowVideo ==
    /\ pc = "video"
    /\ IF Exists(target_file_path)
       THEN /\ pc' = "upload"
            /\ UNCHANGED failedStage
       ELSE /\ pc' = "crashed"
            /\ failedStage' = "video"
    /\ UNCHANGED <<diskVars, yt_url, ret, runs, sessions, target_file_path, process_trigger,
                   error, ingestVars, classifyVars>>

\* --------------------------------------------- upload_to_gemini(file_path)
\* Mutant of LoopContinues: FAILED treated as not finished yet.
LoopContinuesOnFailed(state) == state \in {"PROCESSING", "FAILED"}

\* Mutant of LoopContinues: the loop gives up after two status requests.
LoopContinuesTimeout(state) == state = "PROCESSING" /\ getCalls < 2

\* Line 73: the loop's condition.
LoopContinues(state) == state = "PROCESSING"

\* Line 77: the state that raises.
IsFailed(state) == state = "FAILED"

\* A count that is exact up to MaxReports.
Sat(n) == IF n < MaxReports THEN n + 1 ELSE n

Record(seq, state) == IF Len(seq) < MaxReports THEN Append(seq, state) ELSE seq

\* Line 71: client.files.upload; the handle carries the asset's state.
Upload ==
    /\ pc = "upload"
    /\ uploadCalls' = uploadCalls + 1
    /\ \E state \in States :
         /\ provider' = state
         /\ video_file' = state
         /\ reports' = <<state>>
    /\ pc' = "poll"
    /\ UNCHANGED <<diskVars, yt_url, ret, runs, sessions, target_file_path, process_trigger,
                   error, failedStage, getCalls, gemini_file, classifyVars>>

\* Line 71 raising.
UploadRaises ==
    /\ pc = "upload"
    /\ uploadCalls' = uploadCalls + 1
    /\ Caught("ingest")
    /\ UNCHANGED <<diskVars, yt_url, ret, runs, sessions, provider, video_file, reports,
                   getCalls, gemini_file, classifyVars>>

\* The provider finishes processing the asset, one way or another.
ProviderStep ==
    /\ pc = "poll"
    /\ provider = "PROCESSING"
    /\ provider' \in States \ {"PROCESSING"}
    /\ UNCHANGED <<diskVars, yt_url, ret, runs, sessions, runVars, video_file, reports,
                   uploadCalls, getCalls, gemini_file, classifyVars>>

\* Lines 73-75: one iteration, time.sleep(1) and client.files.get.
Poll ==
    /\ pc = "poll"
    /\ LoopContinues(video_file)
    /\ getCalls' = Sat(getCalls)
    /\ video_file' = provider
    /\ reports' = Record(reports, provider)
    /\ UNCHANGED <<diskVars, yt_url, ret, runs, sessions, runVars, provider, uploadCalls,
                   gemini_file, classifyVars>>

\* Line 75 raising.
PollRaises ==
    /\ pc = "poll"
    /\ LoopContinues(video_file)
    /\ getCalls' = Sat(getCalls)
    /\ Caught("ingest")
    /\ UNCHANGED <<diskVars, yt_url, ret, runs, sessions, provider, video_file, reports,
                   uploadCalls, gemini_file, classifyVars>>

\* Lines 77-78: raise ValueError("Video processing failed at Google's end.").
IngestFail ==
    /\ pc = "poll"
    /\ ~LoopContinues(video_file)
    /\ IsFailed(video_file)
    /\ Caught("ingest")
    /\ UNCHANGED <<diskVars, yt_url, ret, runs, sessions, ingestVars, classifyVars>>

\* Line 80: return video_file.
IngestReturn ==
    /\ pc = "poll"
    /\ ~LoopContinues(video_file)
    /\ ~IsFailed(video_file)
    /\ gemini_file' = video_file
    /\ pc' = "visual"
    /\ UNCHANGED <<diskVars, yt_url, ret, runs, sessions, target_file_path, process_trigger,
                   error, failedStage, provider, video_file, reports, uploadCalls,
                   getCalls, classifyVars>>

\* ------------------------------------- analyze_visuals and analyze_audio
\* Lines 87 and 116: the enums of the two schemas.
VisualEnum == {"Real", "Fake", "Uncertain"}

AudioEnum == {"Natural", "Synthetic", "Mixed/Edited"}

\* response.text: text that is no JSON, or a JSON object with its score
\* and verdict fields ("" for no verdict).
NotJSON == [json |-> FALSE, score |-> Absent, verdict |-> ""]

Text(score, verdict) == [json |-> TRUE, score |-> score, verdict |-> verdict]

\* The texts the model may answer with: one that fits the schema, and one
\* for each way of not fitting it.
ResponseTexts(verdict) ==
    {NotJSON,
     Text(JInt(92), verdict),
     Text(Absent, verdict),
     Text(JInt(150), verdict),
     Text(JOther, verdict),
     Text(JInt(92), ""),
     Text(JInt(92), "Maybe")}

\* Lines 109 and 136: json.loads raises on text that is no JSON ...
json_loads_raises(text) == ~text.json

\* ... and returns the object's fields as a dict otherwise; nothing compares
\* the dict with the schema.
json_loads(text) == [parsed |-> TRUE, score |-> text.score, verdict |-> text.verdict]

\* Lines 96-109.
AnalyzeVisuals ==
    /\ pc = "visual"
    /\ visualCalls' = visualCalls + 1
    /\ \E text \in ResponseTexts("Real") :
         IF json_loads_raises(text)
         THEN /\ Caught("visual")
              /\ UNCHANGED visual_res
         ELSE /\ visual_res' = json_loads(text)
              /\ pc' = "audio"
              /\ UNCHANGED <<target_file_path, process_trigger, error, failedStage>>
    /\ UNCHANGED <<diskVars, yt_url, ret, runs, sessions, ingestVars, audio_res, audioCalls, shown>>

\* Line 96 raising: the request fails.
AnalyzeVisualsRaises ==
    /\ pc = "visual"
    /\ visualCalls' = visualCalls + 1
    /\ Caught("visual")
    /\ UNCHANGED <<diskVars, yt_url, ret, runs, sessions, ingestVars, visual_res, audio_res,
                   audioCalls, shown>>

\* Lines 123-136.
AnalyzeAudio ==
    /\ pc = "audio"
    /\ audioCalls' = audioCalls + 1
    /\ \E text \in ResponseTexts("Natural") :
         IF json_loads_raises(text)
         THEN /\ Caught("audio")
              /\ UNCHANGED audio_res
         ELSE /\ audio_res' = json_loads(text)
              /\ pc' = "render"
              /\ UNCHANGED <<target_file_path, process_trigger, error, failedStage>>
    /\ UNCHANGED <<diskVars, yt_url, ret, runs, sessions, ingestVars, visual_res, visualCalls, shown>>

\* Line 123 raising.
AnalyzeAudioRaises ==
    /\ pc = "audio"
    /\ audioCalls' = audioCalls + 1
    /\ Caught("audio")
    /\ UNCHANGED <<diskVars, yt_url, ret, runs, sessions, ingestVars, visual_res, audio_res,
                   visualCalls, shown>>

\* ------------------------------------------------- the results dashboard
\* dict.get(key, default) on a field of the dict.
dict_get(value, default) == IF value.t = "absent" THEN default ELSE value

\* Lines 193-196 and 207-210: the score with its default, the colour, the
\* verdict.
Report(res) ==
    LET score == dict_get(res.score, JInt(0))
    IN  [drawn |-> TRUE,
         score |-> score.n,
         color |-> IF score.n > 80 THEN "green" ELSE "red",
         verdict |-> res.verdict]

\* Lines 194 and 208: score > 80 raises TypeError for a score that is no
\* number.
CompareRaises(res) == dict_get(res.score, JInt(0)).t = "other"

\* Lines 188-214, inside the try of line 178.
Render ==
    /\ pc = "render"
    /\ IF CompareRaises(visual_res)
       THEN /\ Caught("render")
            /\ UNCHANGED shown
       ELSE IF CompareRaises(audio_res)
            THEN /\ Caught("render")
                 /\ shown' = [shown EXCEPT !.visual = Report(visual_res)]
            ELSE /\ shown' = [visual |-> Report(visual_res), audio |-> Report(audio_res)]
                 /\ pc' = "end"
                 /\ UNCHANGED <<target_file_path, process_trigger, error, failedStage>>
    /\ UNCHANGED <<diskVars, yt_url, ret, runs, sessions, ingestVars, visual_res, audio_res,
                   visualCalls, audioCalls>>

\* ------------------------------------------------------ the whole script
Init ==
    /\ InitDisk
    /\ yt_url = <<>>
    /\ ret = NoCall
    /\ InitRun

Next ==
    \/ RunURL
    \/ RunUpload
    \/ RunUploadRaises
    \/ ShowVideo
    \/ Upload
    \/ UploadRaises
    \/ ProviderStep
    \/ Poll
    \/ PollRaises
    \/ IngestFail
    \/ IngestReturn
    \/ AnalyzeVisuals
    \/ AnalyzeVisualsRaises
    \/ AnalyzeAudio
    \/ AnalyzeAudioRaises
    \/ Render

Spec == Init /\ [][Next]_vars

\* The script is sequential: once the loop's condition is false the next
\* statement runs, and an iteration whose sleep is over issues its request.
FairSpec == Spec /\ WF_vars(Poll \/ IngestFail \/ IngestReturn)

\* ------------------------- download_youtube_video in overlapping sessions
\* Streamlit runs each session's script in a thread of its own, so the
\* statements of download_youtube_video interleave: lines 33-50 (the
\* check), the start of ydl.download, its end.

\* Lines 33-50 in session s: the regex, makedirs, the existence check.
S_Check(s) ==
    /\ sessions[s].pc = "start"
    /\ \E url \in SampleURLs :
         LET video_id == video_id_of[url]
         IN  /\ dirExists' = (dirExists \/ MakeDirs(url))
             /\ IF video_id = NoMatch
                THEN /\ sessions' = [sessions EXCEPT ![s].pc = "done", ![s].out = "raise"]
                     /\ UNCHANGED okHit
                ELSE IF CacheHit(video_id)
                THEN /\ sessions' =
                          [sessions EXCEPT ![s].pc = "done", ![s].out = "hit",
                                           ![s].video_id = video_id,
                                           ![s].absent = ~Exists(output_filename(video_id)),
                                           ![s].seen = files[output_filename(video_id)]]
                     /\ okHit' = Bump(okHit, video_id)
                ELSE /\ sessions' =
                          [sessions EXCEPT ![s].pc = "fetch",
                                           ![s].video_id = video_id,
                                           ![s].absent = ~Exists(output_filename(video_id))]
                     /\ UNCHANGED okHit
    /\ UNCHANGED <<files, fetchCalls, okFetch, yt_url, ret, runs, runVars, ingestVars,
                   classifyVars>>

\* Lines 61-62 in session s: ydl.download is called and starts to write
\* downloads/<id>.<ext>; the data written so far may be visible at that path.
S_FetchBegin(s) ==
    LET video_id == sessions[s].video_id
    IN  /\ sessions[s].pc = "fetch"
        /\ fetchCalls' = Bump(fetchCalls, video_id)
        /\ \E ext \in Exts :
             /\ sessions' = [sessions EXCEPT ![s].pc = "writing", ![s].ext = ext]
             /\ files' \in
                  IF Exists(outtmpl(video_id, ext))
                  THEN {files}
                  ELSE {files, WriteFile(outtmpl(video_id, ext), 0)}
        /\ UNCHANGED <<dirExists, okFetch, okHit, yt_url, ret, runs, runVars, ingestVars,
                       classifyVars>>

\* Lines 62-64 in session s: ydl.download completes and the function
\* returns downloads/<id>.mp4.
S_FetchEnd(s) ==
    LET video_id == sessions[s].video_id
        path == outtmpl(video_id, sessions[s].ext)
    IN  /\ sessions[s].pc = "writing"
        /\ \E c \in Contents :
             files' \in
               IF Exists(path) /\ files[path] # 0
               THEN {files, WriteFile(path, c)}
               ELSE {WriteFile(path, c)}
        /\ okFetch' = Bump(okFetch, video_id)
        /\ sessions' = [sessions EXCEPT ![s].pc = "done", ![s].out = "fetched"]
        /\ UNCHANGED <<dirExists, fetchCalls, okHit, yt_url, ret, runs, runVars,
                       ingestVars, classifyVars>>

\* Line 62 raising in session s.
S_FetchRaises(s) ==
    /\ sessions[s].pc = "writing"
    /\ sessions' = [sessions EXCEPT ![s].pc = "done", ![s].out = "raise"]
    /\ UNCHANGED <<diskVars, yt_url, ret, runs, runVars, ingestVars, classifyVars>>

NextRace ==
    \E s \in Sessions :
        \/ S_Check(s)
        \/ S_FetchBegin(s)
        \/ S_FetchEnd(s)
        \/ S_FetchRaises(s)

SpecRace == Init /\ [][NextRace]_vars

\* ================================================================ claims
CanonicalURLPaths == {output_filename(k) : k \in Ids}

\* C1 (as claimed): over the successful calls for one cache key, ydl.download
\* is invoked at most once; every later call is a cache hit.
C1_FetchAtMostOnce == \A k \in Ids : okFetch[k] <= 1

\* C2 (as claimed): a call that returned after a cache miss returns a path
\* at which a file exists.
C2_MissWritesReturnedPath == ret.kind = "fetched" => Exists(ret.path)

\* C3 (as claimed): a file at the canonical path of a key, downloads/<id>.mp4
\* or temp_upload.mp4, keeps the content it was first written with.
C3_NeverOverwrites ==
    [][\A p \in DOMAIN files :
         p \in CanonicalURLPaths \cup {temp_upload} =>
           p \in DOMAIN files' /\ files'[p] = files[p]]_vars

\* C3 (amended): a file at downloads/<id>.mp4 keeps the content it was first
\* written with, whatever URL and upload acquisitions follow.
C3_URLEntryNeverOverwritten ==
    [][\A p \in DOMAIN files :
         p \in CanonicalURLPaths => p \in DOMAIN files' /\ files'[p] = files[p]]_vars

\* C3: a cache entry exists and a later acquisition of its key has run.
C3_Witness == \E k \in Ids : Exists(output_filename(k)) /\ okHit[k] >= 1

\* C4: a call with a URL the regex does not match raises and changes
\* neither the directory, nor the files, nor the count of ydl.download calls.
C4_InvalidSourceRejected ==
    [][(runs' = runs + 1 /\ yt_url' \in URLs /\ video_id_of[yt_url'] = NoMatch) =>
         /\ ret'.kind = "raise"
         /\ dirExists' = dirExists
         /\ files' = files
         /\ fetchCalls' = fetchCalls]_vars

\* C4: the first call ever had a URL without a video id and raised, on a
\* disk without a downloads directory.
C4_Witness ==
    /\ runs = 1
    /\ yt_url \in URLs
    /\ video_id_of[yt_url] = NoMatch
    /\ ret.kind = "raise"
    /\ ~dirExists

\* upload_to_gemini has been called in this run and is over.
IngestOver == uploadCalls = 1 /\ pc \notin {"upload", "poll"}

\* C5 (as claimed): the provider reported PROCESSING, PROCESSING, READY and
\* upload_to_gemini issued exactly three status requests.
C5_ThreePolls ==
    (IngestOver /\ reports = <<"PROCESSING", "PROCESSING", "READY">>) => getCalls = 3

\* C5 (amended): when the provider reports PROCESSING, PROCESSING, READY
\* (the first with the upload's handle), upload_to_gemini issues exactly two
\* status requests and returns the READY handle; a handle in state FAILED
\* raises at once, with no further status request and no second upload.
C5_IngestStateMachine ==
    /\ [](IngestOver /\ reports = <<"PROCESSING", "PROCESSING", "READY">> =>
            getCalls = 2 /\ gemini_file = "READY" /\ failedStage # "ingest")
    /\ [](IngestOver /\ video_file = "FAILED" =>
            failedStage = "ingest" /\ error # "" /\ gemini_file = "NONE")
    /\ [][pc = "poll" /\ video_file = "FAILED" =>
            pc' = "end" /\ getCalls' = getCalls /\ uploadCalls' = uploadCalls]_vars

\* C5: the run of PROCESSING, PROCESSING, READY has been polled through.
C5_Witness ==
    /\ reports = <<"PROCESSING", "PROCESSING", "READY">>
    /\ gemini_file = "READY"
    /\ getCalls = 2

\* C6 (as claimed): a handle is returned, and a classifier called, only for
\* an asset observed in state READY.
C6_ClassifyOnlyWhenReady ==
    /\ gemini_file # "NONE" => gemini_file = "READY"
    /\ (visualCalls > 0 \/ audioCalls > 0) => video_file = "READY"

\* C7 (as claimed): a failure of acquisition, of saving the upload, of
\* ingestion or of a classifier is caught and shown as an error message,
\* nothing of the dashboard is rendered, and no call is made twice.
C7_FailuresCaughtAndShown ==
    failedStage \in {"acquire", "save", "ingest", "visual", "audio"} =>
        /\ pc = "end"
        /\ error # ""
        /\ ~shown.visual.drawn
        /\ ~shown.audio.drawn
        /\ uploadCalls <= 1
        /\ visualCalls <= 1
        /\ audioCalls <= 1

\* The declared schema: an integer score in 0..100 and a verdict of the enum.
SchemaOK(res, enum) ==
    /\ res.score.t = "int"
    /\ res.score.n \in 0..100
    /\ res.verdict \in enum

\* C8 (as claimed): a classifier returns a result only for a response that
\* fits its schema, and a rendered score is the response's own score.
C8_OutputValidated ==
    /\ visual_res.parsed => SchemaOK(visual_res, VisualEnum)
    /\ audio_res.parsed => SchemaOK(audio_res, AudioEnum)
    /\ shown.visual.drawn => visual_res.score = JInt(shown.visual.score)
    /\ shown.audio.drawn => audio_res.score = JInt(shown.audio.score)

\* C9: nothing but its own existence check stands between a session and the
\* fetch: every session that calls ydl.download saw the file absent, every
\* cache hit saw a file, and ydl.download has been called once per session
\* that got past the check, however many of them there are at once.
C9_CheckThenWrite ==
    /\ \A s \in Sessions :
         /\ sessions[s].pc \in {"fetch", "writing"} \/ sessions[s].out = "fetched" =>
              sessions[s].absent
         /\ sessions[s].out = "hit" => ~sessions[s].absent
    /\ \A k \in Ids :
         fetchCalls[k] =
           Cardinality({s \in Sessions :
                          /\ sessions[s].video_id = k
                          /\ sessions[s].pc \in {"writing", "done"}
                          /\ sessions[s].absent})

\* C9: two sessions are writing the same cache entry while a third has
\* returned that entry, half written, as a cache hit.
C9_Witness ==
    \E s, t, r \in Sessions :
        /\ s # t
        /\ sessions[s].pc = "writing" /\ sessions[t].pc = "writing"
        /\ sessions[s].video_id = sessions[t].video_id
        /\ sessions[s].ext = "mp4" /\ sessions[t].ext = "mp4"
        /\ sessions[r].out = "hit"
        /\ sessions[r].video_id = sessions[s].video_id
        /\ sessions[r].seen = 0

====
